---- MODULE Spec2Model ----
(***************************************************************************)
(* Hamming single-error-correcting receptor (standalone, client and server *)
(* variants), Fletcher-16 receptor and the shared binary-string validator  *)
(* of Andrea-gt/hamming-crc32.                                             *)
(*                                                                         *)
(* A Python str is a sequence of one-character strings.  A printed or      *)
(* returned message is a record [tag, pos, text]; the three Hamming        *)
(* messages are tagged "error_at", "multiple" and "error_free".            *)
(***************************************************************************)
EXTENDS Integers, Sequences, FiniteSets, TLC

VARIABLES pc, variant, orig, flips, input_string, result,
          input_length, parity_bits, size, data, chunks

vars == <<pc, variant, orig, flips, input_string, result,
          input_length, parity_bits, size, data, chunks>>

\* the receiving server's variables: data, and the chunks recv() has returned on
\* the connection now or last open
session == <<data, chunks>>

(***************************************************************************)
(* Bounds of the model.                                                    *)
(***************************************************************************)
\* longest bit string handed to the Hamming receptor
MaxLen == 7
\* longest string typed at the prompt that holds a non-binary character
MaxTyped == 2
\* largest length getParityBits is called on by SpecParity
MaxLength == 40
\* longest Fletcher payload of which every bit pattern is sent
MaxPayload == 4
\* longest Hamming-encoded string the server session receives
MaxCodeLen == 13
\* most chunks recv() returns on one connection before the peer closes
MaxChunks == 2
\* longest chunk one recv() returns
MaxChunkLen == 2

(***************************************************************************)
(* Strings.                                                                *)
(***************************************************************************)
Bit == {"0", "1"}

\* all strings of length n over the alphabet A
StringsOfLen(A, n) == [1..n -> A]

\* all strings over A of length lo..hi
StringsUpTo(A, lo, hi) == UNION {StringsOfLen(A, n) : n \in lo..hi}

\* s[::-1]
Reverse(s) == [i \in 1..Len(s) |-> s[Len(s) + 1 - i]]

\* set(input_string)
CharSet(s) == {s[i] : i \in 1..Len(s)}

\* int(x) for a one-character binary numeral
ToInt(ch) == IF ch = "1" THEN 1 ELSE 0

\* str(n) for n in {0, 1}
ToStr(n) == IF n = 1 THEN "1" ELSE "0"

\* the binary numeral of n, most significant digit first, no padding
RECURSIVE BinDigits(_)
BinDigits(n) == IF n < 2 THEN <<ToStr(n)>> ELSE BinDigits(n \div 2) \o <<ToStr(n % 2)>>

\* a string of n zeros
Zeros(n) == [i \in 1..n |-> "0"]

\* mutant of FormatBin: the digits least significant first
FormatBinLsbFirst(n, width) ==
    LET d == BinDigits(n)
    IN  Reverse(IF Len(d) < width THEN Zeros(width - Len(d)) \o d ELSE d)

\* "{0:0{1}b}".format(n, width): zero-padded on the left to at least width
FormatBin(n, width) ==
    LET d == BinDigits(n)
    IN  IF Len(d) < width THEN Zeros(width - Len(d)) \o d ELSE d

\* int(s, 2) for a non-empty binary numeral s
RECURSIVE ParseBin(_)
ParseBin(s) ==
    IF Len(s) = 0 THEN 0
    ELSE 2 * ParseBin(SubSeq(s, 1, Len(s) - 1)) + ToInt(s[Len(s)])

(***************************************************************************)
(* validateInputString.                                                    *)
(***************************************************************************)
\* mutant of validateInputString: a subset test, which lets the empty string in
validateInputStringSubset(s) == CharSet(s) \subseteq {"0", "1"}

validateInputString(s) ==
    LET binary_set == {"0", "1"}
        input_set == CharSet(s)
    IN  binary_set = input_set \/ input_set = {"0"} \/ input_set = {"1"}

(***************************************************************************)
(* getParityBits.                                                          *)
(***************************************************************************)
\* mutant of ParityLoopCond: the "+ 1" of the loop condition dropped
ParityLoopCondNoPlusOne(length, p) == 2 ^ p < length + p

\* the condition of the while loop
ParityLoopCond(length, p) == 2 ^ p < length + p + 1

RECURSIVE ParityLoop(_, _)
ParityLoop(length, p) ==
    IF ParityLoopCond(length, p) THEN ParityLoop(length, p + 1) ELSE p

getParityBits(length) == ParityLoop(length, 0)

(***************************************************************************)
(* The syndrome computation shared by the three variants of hamming.       *)
(***************************************************************************)
\* rows: one p-bit row per position of the reversed string that holds a '1'
RECURSIVE RowsFrom(_, _, _)
RowsFrom(s, p, i) ==
    IF i > Len(s) THEN <<>>
    ELSE (IF s[i] = "1" THEN <<FormatBin(i, p)>> ELSE <<>>) \o RowsFrom(s, p, i + 1)

Rows(s, p) == RowsFrom(s, p, 1)

\* pd.DataFrame(rows, columns=columns) raises when the data has another
\* number of columns than the p column labels; no rows give an empty frame
DataFrameRaises(rows, p) ==
    /\ rows # <<>>
    /\ \E r \in 1..Len(rows) : Len(rows[r]) # p

\* df[col]: the c-th entry of every row
Column(rows, c) == [r \in 1..Len(rows) |-> rows[r][c]]

\* reduce(lambda x, y: int(x) ^ int(y), col_values) on a non-empty column
RECURSIVE ReduceXor(_)
ReduceXor(col) ==
    IF Len(col) = 1 THEN ToInt(col[1])
    ELSE (ReduceXor(SubSeq(col, 1, Len(col) - 1)) + ToInt(col[Len(col)])) % 2

\* xorColumns: reduce without an initial value raises TypeError on no values
xorColumns(col) == IF col = <<>> THEN "TypeError" ELSE ToStr(ReduceXor(col))

\* the outcome of lines 34-67: whether they raise, and the values they leave
Syndrome(input) ==
    LET s == Reverse(input)
        L == Len(s)
        p == getParityBits(L)
        rows == Rows(s, p)
        frame_raises == DataFrameRaises(rows, p)
        xor_results == IF frame_raises THEN <<>>
                       ELSE [c \in 1..p |-> xorColumns(Column(rows, c))]
        raises == \/ frame_raises
                  \/ \E c \in 1..Len(xor_results) : xor_results[c] = "TypeError"
                  \/ xor_results = <<>>
    IN  [raised |-> raises,
         reversed |-> s,
         input_length |-> L,
         parity_bits |-> p,
         rows |-> rows,
         xor_int |-> IF raises THEN 0 ELSE ParseBin(xor_results)]

(***************************************************************************)
(* Messages and results.                                                   *)
(***************************************************************************)
Msg(tag, pos, text) == [tag |-> tag, pos |-> pos, text |-> text]

\* return None
RetNone == [kind |-> "None", msg |-> Msg("", 0, <<>>), ascii |-> <<>>]

\* return <a message string>
RetStr(m) == [kind |-> "str", msg |-> m, ascii |-> <<>>]

\* return ascii_text, a string given by its characters' code points
RetAscii(codes) == [kind |-> "ascii", msg |-> Msg("", 0, <<>>), ascii |-> codes]

\* the call raised an exception
Raised == [raised |-> TRUE, printed |-> <<>>, ret |-> RetNone]

Outcome(printed, ret) == [raised |-> FALSE, printed |-> printed, ret |-> ret]

\* no call made yet
NoResult == [raised |-> FALSE, printed |-> <<>>, ret |-> RetNone]

\* correction[xor_int - 1] = '1' if correction[xor_int - 1] == '0' else '0'
FlipBit(s, k) == [s EXCEPT ![k] = IF s[k] = "0" THEN "1" ELSE "0"]

\* if xor_int >= input_length: the message may have multiple errors
IsMultiple(xor_int, length) == xor_int >= length

(***************************************************************************)
(* hamming, standalone program (src/Hamming).                              *)
(***************************************************************************)
hamming_standalone(input) ==
    LET y == Syndrome(input)
        s == y.reversed
    IN  IF y.raised THEN Raised
        ELSE IF y.xor_int # 0
        THEN IF IsMultiple(y.xor_int, y.input_length)
             THEN Outcome(<<>>, RetStr(Msg("multiple", 0, <<>>)))
             ELSE Outcome(<<>>, RetStr(Msg("error_at", y.xor_int,
                                           Reverse(FlipBit(s, y.xor_int)))))
        ELSE Outcome(<<>>, RetStr(Msg("error_free", 0, Reverse(s))))

(***************************************************************************)
(* hamming, client variant (src/utils/client): the corrected branch prints *)
(* and then falls through to the final print.                              *)
(***************************************************************************)
hamming_client(input) ==
    LET y == Syndrome(input)
        s == y.reversed
    IN  IF y.raised THEN Raised
        ELSE IF y.xor_int # 0
        THEN IF IsMultiple(y.xor_int, y.input_length)
             THEN Outcome(<<>>, RetStr(Msg("multiple", 0, <<>>)))
             ELSE LET fixed == FlipBit(s, y.xor_int)
                  IN  Outcome(<<Msg("error_at", y.xor_int, Reverse(fixed)),
                                Msg("error_free", 0, Reverse(fixed))>>, RetNone)
        ELSE Outcome(<<Msg("error_free", 0, Reverse(s))>>, RetNone)

(***************************************************************************)
(* hamming, server variant (src/utils/server): an error-free string is     *)
(* stripped of its parity positions and converted to text.                 *)
(***************************************************************************)
\* n & m on naturals
RECURSIVE BitAnd(_, _)
BitAnd(n, m) ==
    IF n = 0 \/ m = 0 THEN 0
    ELSE 2 * BitAnd(n \div 2, m \div 2) + (IF n % 2 = 1 /\ m % 2 = 1 THEN 1 ELSE 0)

\* n | m on naturals
RECURSIVE BitOr(_, _)
BitOr(n, m) ==
    IF n = 0 THEN m
    ELSE IF m = 0 THEN n
    ELSE 2 * BitOr(n \div 2, m \div 2) + (IF n % 2 = 1 \/ m % 2 = 1 THEN 1 ELSE 0)

\* (n & (n - 1)) == 0 and n != 0, for n >= 1
is_power_of_two(n) == BitAnd(n, n - 1) = 0 /\ n # 0

\* data_bits: the characters of s at the positions that are no power of two
RECURSIVE DataBitsFrom(_, _)
DataBitsFrom(s, i) ==
    IF i > Len(s) THEN <<>>
    ELSE (IF ~is_power_of_two(i) THEN <<s[i]>> ELSE <<>>) \o DataBitsFrom(s, i + 1)

\* the width of one chunk of divided_message
ChunkBits == 8

\* [b[i:i + 8] for i in range(0, len(b), 8)]
RECURSIVE Chunks(_)
Chunks(b) ==
    IF Len(b) = 0 THEN <<>>
    ELSE IF Len(b) <= ChunkBits THEN <<b>>
    ELSE <<SubSeq(b, 1, ChunkBits)>> \o Chunks(SubSeq(b, ChunkBits + 1, Len(b)))

\* mutant of ChunkCode: a chunk read as if zero-padded on the right to 8 bits
ChunkCodePadRight(chunk) == ParseBin(chunk \o Zeros(ChunkBits - Len(chunk)))

\* int(i, 2) of one chunk: the code point chr() is given
ChunkCode(chunk) == ParseBin(chunk)

\* ''.join([chr(int(i, 2)) for i in bits]), as the code points of its characters
binary_to_string(bits) == [j \in 1..Len(bits) |-> ChunkCode(bits[j])]

hamming_server(input) ==
    LET y == Syndrome(input)
        s == y.reversed
    IN  IF y.raised THEN Raised
        ELSE IF y.xor_int # 0
        THEN IF IsMultiple(y.xor_int, y.input_length)
             THEN Outcome(<<>>, RetStr(Msg("multiple", 0, <<>>)))
             ELSE Outcome(<<Msg("error_at", y.xor_int,
                                Reverse(FlipBit(s, y.xor_int)))>>, RetNone)
        ELSE LET binary_data_string == DataBitsFrom(s, 1)
                 divided_message == Chunks(binary_data_string)
             IN  Outcome(<<Msg("error_free", 0, Reverse(s))>>,
                         RetAscii(binary_to_string(divided_message)))

HammingVariants == {"standalone", "client", "server"}

hamming(v, input) ==
    CASE v = "standalone" -> hamming_standalone(input)
      [] v = "client" -> hamming_client(input)
      [] OTHER -> hamming_server(input)

(***************************************************************************)
(* Fletcher16 (src/utils/client/fletcher_receptor.py).                     *)
(***************************************************************************)
\* module = 255
module == 255

\* the default of the parameter size
DefaultSize == 16

\* s[-size:]
LastChars(s, sz) ==
    IF sz = 0 \/ sz >= Len(s) THEN s ELSE SubSeq(s, Len(s) - sz + 1, Len(s))

\* mutant of DropLast: one character too many kept
DropLastOffByOne(s, sz) ==
    IF sz = 0 THEN <<>>
    ELSE IF sz - 1 >= Len(s) THEN <<>> ELSE SubSeq(s, 1, Len(s) - sz + 1)

\* s[:-size]
DropLast(s, sz) ==
    IF sz = 0 \/ sz >= Len(s) THEN <<>> ELSE SubSeq(s, 1, Len(s) - sz)

\* mutant of SumStep: the character's value never added to sum1
SumStepValueDropped(sums, char) ==
    LET sum1 == sums[1] % module
        sum2 == (sums[2] + sum1) % module
    IN  <<sum1, sum2>>

\* one pass of the loop body on character char
SumStep(sums, char) ==
    LET value == ToInt(char)
        sum1 == (sums[1] + value) % module
        sum2 == (sums[2] + sum1) % module
    IN  <<sum1, sum2>>

\* the for loop over characters lo..hi of the payload, entered with <<sum1, sum2>>
\* = sums: the passes run left to right.  The range is halved and the left
\* half's sums (both below the modulus) are computed before the right half
\* is entered, which keeps the evaluation shallow on long payloads
RECURSIVE SumLoop(_, _, _, _)
SumLoop(payload, lo, hi, sums) ==
    IF lo > hi THEN sums
    ELSE IF lo = hi THEN SumStep(sums, payload[lo])
    ELSE LET mid == (lo + hi) \div 2
             left == SumLoop(payload, lo, mid, sums)
         IN  IF left[1] < module /\ left[2] < module
             THEN SumLoop(payload, mid + 1, hi, left)
             ELSE left

\* mutant of PackChecksum: the two sums in each other's half
PackChecksumSwapped(sum1, sum2, sz) ==
    FormatBin(BitAnd(BitOr(sum1 * 2 ^ (sz \div 2), sum2), 2 ^ sz - 1), sz)

\* f"{(sum2 << (size // 2) | sum1) & mask:0{size}b}" with mask = (1 << size) - 1
PackChecksum(sum1, sum2, sz) ==
    FormatBin(BitAnd(BitOr(sum2 * 2 ^ (sz \div 2), sum1), 2 ^ sz - 1), sz)

Fletcher16(input, sz) ==
    LET original_checksum == LastChars(input, sz)
        payload == DropLast(input, sz)
        sums == SumLoop(payload, 1, Len(payload), <<0, 0>>)
        checksum == PackChecksum(sums[1], sums[2], sz)
        shown == Msg("checksums", 0, <<checksum, original_checksum>>)
    IN  IF ~(original_checksum = checksum)
        THEN Outcome(<<shown, Msg("fletcher_error", 0, <<>>)>>, RetNone)
        ELSE Outcome(<<shown, Msg("fletcher_valid", 0, payload)>>, RetNone)

(***************************************************************************)
(* The senders and the channel: what reaches the receptors.                *)
(***************************************************************************)
\* n ^ m on naturals
RECURSIVE BitXor(_, _)
BitXor(n, m) ==
    IF n = 0 THEN m
    ELSE IF m = 0 THEN n
    ELSE 2 * BitXor(n \div 2, m \div 2) + (IF n % 2 # m % 2 THEN 1 ELSE 0)

\* the XOR of the 1-indexed positions i <= k of s that hold a '1'
RECURSIVE XorPositions(_, _)
XorPositions(s, k) ==
    IF k = 0 THEN 0
    ELSE BitXor(XorPositions(s, k - 1), IF s[k] = "1" THEN k ELSE 0)

\* a Hamming-encoded string: the positions of its 1 bits, in the reversed
\* view, XOR to 0
IsCodeword(c) ==
    /\ Len(c) >= 1
    /\ CharSet(c) \subseteq Bit
    /\ XorPositions(Reverse(c), Len(c)) = 0

Codewords(maxlen) == {c \in StringsUpTo(Bit, 1, maxlen) : IsCodeword(c)}

\* the checksum field the sender appends: sum2 in the high half, sum1 in the low
SenderChecksum(payload, sz) ==
    LET sums == SumLoop(payload, 1, Len(payload), <<0, 0>>)
    IN  FormatBin((sums[2] * 2 ^ (sz \div 2) + sums[1]) % 2 ^ sz, sz)

\* what is typed at the prompt: every bit string, and short strings with
\* a character that is no bit
Typed ==
    StringsUpTo(Bit, 0, MaxLen)
        \cup {s \in StringsUpTo({"0", "1", "a"}, 1, MaxTyped) : "a" \in CharSet(s)}

\* the run lengths at which a running sum reaches or passes the modulus
LongRuns == {22, 23, 254, 255, 256}

Ones(n) == [i \in 1..n |-> "1"]

\* the payload of the documented round-trip example, "1010101"
ExamplePayload == <<"1", "0", "1", "0", "1", "0", "1">>

Payloads ==
    StringsUpTo(Bit, 0, MaxPayload) \cup {Ones(n) : n \in LongRuns} \cup {ExamplePayload}

\* the checksum sizes Fletcher16 is called with
Sizes == {2, 4, 16, 18}

\* the string as it arrives: bit k flipped, k = 0 for none
Corrupt(s, k) == IF k = 0 THEN s ELSE FlipBit(s, k)

(***************************************************************************)
(* The sessions: a string is entered or received, validated and handed to  *)
(* the codec; the result is shown and the loop starts over.                *)
(***************************************************************************)
Idle ==
    /\ pc = "menu"
    /\ variant = "none"
    /\ orig = <<>>
    /\ flips = {}
    /\ input_string = <<>>
    /\ result = NoResult
    /\ input_length = 0
    /\ parity_bits = 0
    /\ size = 0
    /\ data = <<>>
    /\ chunks = <<>>

Init == Idle

\* binary_entry = input(...): any string typed at the prompt
EnterBinary ==
    /\ pc = "menu"
    /\ \E v \in HammingVariants, s \in Typed :
          /\ variant' = v
          /\ orig' = s
          /\ input_string' = s
    /\ flips' = {}
    /\ pc' = "entered"
    /\ UNCHANGED <<result, input_length, parity_bits, size>>
    /\ UNCHANGED session

\* a Hamming-encoded string arrives with at most one bit flipped, at
\* position k of the reversed view
Transmit ==
    /\ pc = "menu"
    /\ \E v \in HammingVariants, c \in Codewords(MaxLen) :
          \E k \in 0..Len(c) :
             /\ variant' = v
             /\ orig' = c
             /\ flips' = IF k = 0 THEN {} ELSE {k}
             /\ input_string' = Reverse(Corrupt(Reverse(c), k))
    /\ pc' = "entered"
    /\ UNCHANGED <<result, input_length, parity_bits, size>>
    /\ UNCHANGED session

\* the server session receives an unharmed Hamming-encoded string, or nothing
ReceiveCodeword ==
    /\ pc = "menu"
    /\ \E c \in Codewords(MaxCodeLen) \cup {<<>>} :
          /\ orig' = c
          /\ input_string' = c
    /\ variant' = "server"
    /\ flips' = {}
    /\ pc' = "entered"
    /\ UNCHANGED <<result, input_length, parity_bits, size>>
    /\ UNCHANGED session

\* a payload arrives with its checksum field appended, at most one bit flipped
SendFramed ==
    /\ pc = "menu"
    /\ \E payload \in Payloads, sz \in Sizes :
          \E k \in 0..(Len(payload) + sz) :
             /\ orig' = payload
             /\ size' = sz
             /\ flips' = IF k = 0 THEN {} ELSE {k}
             /\ input_string' = Corrupt(payload \o SenderChecksum(payload, sz), k)
    /\ variant' = "fletcher"
    /\ pc' = "entered"
    /\ UNCHANGED <<result, input_length, parity_bits>>
    /\ UNCHANGED session

\* any short string arrives at the Fletcher receptor, framed or not
SendRaw ==
    /\ pc = "menu"
    /\ \E s \in StringsUpTo(Bit, 0, MaxPayload), sz \in Sizes :
          /\ orig' = s
          /\ size' = sz
          /\ input_string' = s
    /\ flips' = {}
    /\ variant' = "fletcher"
    /\ pc' = "entered"
    /\ UNCHANGED <<result, input_length, parity_bits>>
    /\ UNCHANGED session

\* if not validateInputString(...): print the error, no codec call
RejectInput ==
    /\ pc = "entered"
    /\ ~validateInputString(input_string)
    /\ result' = Outcome(<<Msg("invalid_input", 0, <<>>)>>, RetNone)
    /\ pc' = "rejected"
    /\ UNCHANGED <<variant, orig, flips, input_string, input_length, parity_bits, size>>
    /\ UNCHANGED session

\* else: the branch that calls the codec is taken
AcceptInput ==
    /\ pc = "entered"
    /\ validateInputString(input_string)
    /\ pc' = "valid"
    /\ UNCHANGED <<variant, orig, flips, input_string, result, input_length, parity_bits, size>>
    /\ UNCHANGED session

\* result = hamming(input_string=...)
CallHamming ==
    /\ pc = "valid"
    /\ variant \in HammingVariants
    /\ result' = hamming(variant, input_string)
    /\ pc' = "done"
    /\ UNCHANGED <<variant, orig, flips, input_string, input_length, parity_bits, size>>
    /\ UNCHANGED session

\* result = Fletcher16(input_string=...)
CallFletcher16 ==
    /\ pc = "valid"
    /\ variant = "fletcher"
    /\ result' = Fletcher16(input_string, size)
    /\ pc' = "done"
    /\ UNCHANGED <<variant, orig, flips, input_string, input_length, parity_bits, size>>
    /\ UNCHANGED session

\* while True: back to the menu
NextRound ==
    /\ pc \in {"done", "rejected"}
    /\ pc' = "menu"
    /\ variant' = "none"
    /\ orig' = <<>>
    /\ flips' = {}
    /\ input_string' = <<>>
    /\ result' = NoResult
    /\ UNCHANGED <<input_length, parity_bits>>
    /\ size' = 0
    /\ UNCHANGED session

Next == EnterBinary \/ Transmit \/ RejectInput \/ AcceptInput \/ CallHamming \/ NextRound

\* the prompt of the Hamming programs
Spec == Init /\ [][Next]_vars

NextServer == ReceiveCodeword \/ RejectInput \/ AcceptInput \/ CallHamming \/ NextRound

\* the server session on unharmed strings
SpecServer == Init /\ [][NextServer]_vars

NextFletcher ==
    SendFramed \/ SendRaw \/ RejectInput \/ AcceptInput \/ CallFletcher16 \/ NextRound

\* the Fletcher receptor
SpecFletcher == Init /\ [][NextFletcher]_vars

(***************************************************************************)
(* The receiving server (src/receiver.py): one connection at a time is     *)
(* accepted and read until the peer closes the stream; then an operation   *)
(* is selected and applied to data.                                        *)
(***************************************************************************)
\* what one recv(1024) returns, decoded: a non-empty piece of the stream
ChunkStrings == StringsUpTo(Bit, 1, MaxChunkLen)

\* c1 ++ ... ++ cn
RECURSIVE Concat(_)
Concat(cs) == IF cs = <<>> THEN <<>> ELSE cs[1] \o Concat(Tail(cs))

\* data = "" before the loop; the socket is bound
InitReceiver ==
    /\ pc = "listen"
    /\ variant = "none"
    /\ orig = <<>>
    /\ flips = {}
    /\ input_string = <<>>
    /\ result = NoResult
    /\ input_length = 0
    /\ parity_bits = 0
    /\ size = 0
    /\ data = <<>>
    /\ chunks = <<>>

\* conn, addr = socket_.accept()
Accept ==
    /\ pc = "listen"
    /\ pc' = "recv"
    /\ chunks' = <<>>
    /\ UNCHANGED <<variant, orig, flips, input_string, result, input_length,
                   parity_bits, size, data>>

\* received_data = conn.recv(1024), not empty: data = received_data.decode('utf-8')
RecvChunk ==
    /\ pc = "recv"
    /\ Len(chunks) < MaxChunks
    /\ \E received_data \in ChunkStrings :
          /\ data' = received_data
          /\ chunks' = Append(chunks, received_data)
    /\ UNCHANGED <<pc, variant, orig, flips, input_string, result, input_length,
                   parity_bits, size>>

\* received_data is empty, the peer has closed: break, and the menu is shown
PeerCloses ==
    /\ pc = "recv"
    /\ pc' = "select"
    /\ UNCHANGED <<variant, orig, flips, input_string, result, input_length,
                   parity_bits, size, data, chunks>>

\* operation == '1': data goes to validateInputString and Fletcher16
SelectFletcher ==
    /\ pc = "select"
    /\ variant' = "fletcher"
    /\ size' = DefaultSize
    /\ input_string' = data
    /\ orig' = data
    /\ pc' = "entered"
    /\ UNCHANGED <<flips, result, input_length, parity_bits, data, chunks>>

\* operation == '2': data goes to validateInputString and hamming
SelectHamming ==
    /\ pc = "select"
    /\ variant' = "server"
    /\ input_string' = data
    /\ orig' = data
    /\ pc' = "entered"
    /\ UNCHANGED <<flips, result, input_length, parity_bits, size, data, chunks>>

\* operation == '3': break
SelectExit ==
    /\ pc = "select"
    /\ pc' = "exited"
    /\ UNCHANGED <<variant, orig, flips, input_string, result, input_length,
                   parity_bits, size, data, chunks>>

\* any other choice: "Invalid choice", and the loop goes on
SelectInvalid ==
    /\ pc = "select"
    /\ pc' = "listen"
    /\ UNCHANGED <<variant, orig, flips, input_string, result, input_length,
                   parity_bits, size, data, chunks>>

\* the result is printed and the outer loop goes on; data keeps its value
ListenAgain ==
    /\ pc \in {"done", "rejected"}
    /\ pc' = "listen"
    /\ variant' = "none"
    /\ orig' = <<>>
    /\ input_string' = <<>>
    /\ result' = NoResult
    /\ size' = 0
    /\ UNCHANGED <<flips, input_length, parity_bits, data, chunks>>

NextReceiver ==
    \/ Accept
    \/ RecvChunk
    \/ PeerCloses
    \/ SelectFletcher
    \/ SelectHamming
    \/ SelectExit
    \/ SelectInvalid
    \/ RejectInput
    \/ AcceptInput
    \/ CallHamming
    \/ CallFletcher16
    \/ ListenAgain

\* the receiving server
SpecReceiver == InitReceiver /\ [][NextReceiver]_vars

(***************************************************************************)
(* getParityBits, one step of its loop at a time.                          *)
(***************************************************************************)
InitParity ==
    /\ pc = "parity_loop"
    /\ input_length \in 1..MaxLength
    /\ parity_bits = 0
    /\ variant = "none"
    /\ orig = <<>>
    /\ flips = {}
    /\ input_string = <<>>
    /\ result = NoResult
    /\ size = 0
    /\ data = <<>>
    /\ chunks = <<>>

\* the loop condition holds: parity_bits += 1
ParityStep ==
    /\ pc = "parity_loop"
    /\ ParityLoopCond(input_length, parity_bits)
    /\ parity_bits' = parity_bits + 1
    /\ UNCHANGED <<pc, variant, orig, flips, input_string, result, input_length, size>>
    /\ UNCHANGED session

\* the loop condition fails: return parity_bits
ParityReturn ==
    /\ pc = "parity_loop"
    /\ ~ParityLoopCond(input_length, parity_bits)
    /\ pc' = "parity_returned"
    /\ UNCHANGED <<variant, orig, flips, input_string, result, input_length,
                   parity_bits, size>>
    /\ UNCHANGED session

NextParity == ParityStep \/ ParityReturn

\* a call of getParityBits runs to its end: the program is sequential
SpecParity == InitParity /\ [][NextParity]_vars /\ WF_vars(NextParity)

(***************************************************************************)
(* What a call reported, and the reference notions the properties use.     *)
(***************************************************************************)
\* the messages a call printed or returned
ReportedMsgs(r) ==
    {r.printed[i] : i \in 1..Len(r.printed)}
        \cup (IF r.ret.kind = "str" THEN {r.ret.msg} ELSE {})

\* their tags
Reports(r) == {m.tag : m \in ReportedMsgs(r)}

HammingTags == {"error_free", "error_at", "multiple"}

\* a non-empty string of '0' and '1' only
IsBinaryString(s) == Len(s) >= 1 /\ \A i \in 1..Len(s) : s[i] \in {"0", "1"}

\* the XOR of the positions of the 1 bits of the received string, reversed view
PositionXor(s) == XorPositions(Reverse(s), Len(s))

\* the value of the bits of s as a binary number, first bit most significant
BitsValue(s) ==
    LET W == Len(s)
        term[i \in 0..W] ==
            IF i = 0 THEN 0 ELSE term[i - 1] + (IF s[i] = "1" THEN 2 ^ (W - i) ELSE 0)
    IN  term[W]

(***************************************************************************)
(* C1. A Hamming-encoded string with exactly one bit flipped at position k *)
(* of the reversed view, for every k in 1..length: hamming reports a       *)
(* correctable error at position k, and the corrected string it reports is *)
(* the string before the flip.  Stated on the encoded strings that hold at *)
(* least one data bit (length >= 3).                                       *)
(***************************************************************************)
C1_SingleFlipCorrected ==
    (/\ pc = "done"
     /\ variant \in HammingVariants
     /\ IsCodeword(orig)
     /\ Len(orig) >= 3
     /\ flips # {}) =>
        \A k \in flips :
            /\ ~result.raised
            /\ \E m \in ReportedMsgs(result) :
                  m.tag = "error_at" /\ m.pos = k /\ m.text = orig

(***************************************************************************)
(* C2. A valid Hamming-encoded string (non-empty, syndrome 0, no injected  *)
(* error): hamming reports it error-free and reports the input unchanged.  *)
(***************************************************************************)
C2_CodewordErrorFree ==
    (pc = "done" /\ variant \in HammingVariants /\ IsCodeword(input_string)) =>
        /\ ~result.raised
        /\ Reports(result) = {"error_free"}
        /\ \A m \in ReportedMsgs(result) : m.text = input_string

(***************************************************************************)
(* C3. An input with no 1 bit (all zeros, any length >= 1): no rows, every *)
(* column XORs to 0, the syndrome is 0 and hamming completes with the      *)
(* error-free result rather than failing.                                  *)
(***************************************************************************)
C3_AllZeroErrorFree ==
    (pc = "done" /\ variant \in HammingVariants /\ CharSet(input_string) = {"0"}) =>
        /\ ~result.raised
        /\ "error_free" \in Reports(result)

(***************************************************************************)
(* C4. In every variant, each call of hamming on a non-empty bit string    *)
(* reports exactly one of the three outcomes, chosen by the syndrome s:    *)
(* error-free iff s = 0, corrected iff 0 < s < length, unrecoverable iff   *)
(* s >= length; no call reports both an error and "error-free".  Stated on *)
(* the calls that return, whatever they report.                            *)
(***************************************************************************)
C4_ExactlyOneOutcome ==
    (pc = "done" /\ variant \in HammingVariants /\ ~result.raised) =>
        LET s == PositionXor(input_string)
            L == Len(input_string)
            tags == Reports(result)
        IN  /\ Cardinality(tags \cap HammingTags) = 1
            /\ "error_free" \in tags <=> s = 0
            /\ "error_at" \in tags <=> (0 < s /\ s < L)
            /\ "multiple" \in tags <=> s >= L

(***************************************************************************)
(* C5. For every length >= 1, getParityBits(length) terminates and returns *)
(* the smallest p >= 0 with 2^p >= length + p + 1; the result does not     *)
(* decrease as the length grows; getParityBits(7) = 4.                     *)
(***************************************************************************)
C5_Returned ==
    pc = "parity_returned" =>
        /\ 2 ^ parity_bits >= input_length + parity_bits + 1
        /\ \A q \in 0..(parity_bits - 1) : 2 ^ q < input_length + q + 1
        /\ \A m \in 1..input_length : getParityBits(m) <= parity_bits
        /\ input_length = 7 => parity_bits = 4

C5_ParityBits == [](C5_Returned) /\ <>(pc = "parity_returned")

C5_Witness == pc = "parity_returned" /\ input_length = 7 /\ parity_bits = 4

(***************************************************************************)
(* C6. Fletcher round trip, size 16: a payload (the empty one and          *)
(* "1010101" included) followed by its 16-bit checksum is reported valid,  *)
(* with the payload reported being the original one; and a string is       *)
(* reported valid only when the computed checksum equals its last 16       *)
(* characters.                                                             *)
(***************************************************************************)
C6_RoundTrip ==
    (pc = "done" /\ variant = "fletcher" /\ size = DefaultSize) =>
        LET n == Len(input_string)
            tags == Reports(result)
            computed == result.printed[1].text[1]
        IN  /\ ~result.raised
            /\ input_string = orig \o SenderChecksum(orig, DefaultSize) =>
                  /\ tags = {"checksums", "fletcher_valid"}
                  /\ result.printed[2].text = orig
            /\ "fletcher_valid" \in tags =>
                  /\ n >= DefaultSize
                  /\ computed = SubSeq(input_string, n - DefaultSize + 1, n)
                  /\ "fletcher_error" \notin tags

C6_Witness ==
    /\ pc = "done"
    /\ variant = "fletcher"
    /\ size = DefaultSize
    /\ orig = ExamplePayload
    /\ flips = {}
    /\ Len(input_string) = Len(ExamplePayload) + DefaultSize
    /\ "fletcher_valid" \in Reports(result)

(***************************************************************************)
(* C7. validateInputString accepts a string iff it is non-empty and every  *)
(* character is '0' or '1'; the empty string and a string with another     *)
(* character are rejected, and the codec is called on accepted strings     *)
(* only.                                                                   *)
(***************************************************************************)
C7_ValidatedBeforeCodec ==
    /\ pc \in {"valid", "done"} => IsBinaryString(input_string)
    /\ pc = "rejected" =>
          /\ ~IsBinaryString(input_string)
          /\ Reports(result) = {"invalid_input"}
    /\ pc = "done" => "invalid_input" \notin Reports(result)

C7_Witness == pc = "rejected" /\ input_string = <<>>

(***************************************************************************)
(* C8. For a bit string of length L >= 1 with at least one 1 bit, the      *)
(* syndrome hamming computes (column-wise XOR of the p-bit rows, joined    *)
(* and parsed as binary) is the bitwise XOR of the positions of the 1 bits *)
(* in the reversed view; every position 1..L fits in p bits, so the        *)
(* syndrome lies in [0, 2^p).                                              *)
(***************************************************************************)
C8_SyndromeIsPositionXor ==
    (pc = "done" /\ variant \in HammingVariants /\ "1" \in CharSet(input_string)) =>
        LET y == Syndrome(input_string)
        IN  /\ ~y.raised
            /\ y.parity_bits = getParityBits(Len(input_string))
            /\ \A r \in 1..Len(y.rows) : Len(y.rows[r]) = y.parity_bits
            /\ \A i \in 1..Len(input_string) : i < 2 ^ y.parity_bits
            /\ y.xor_int = PositionXor(input_string)
            /\ y.xor_int < 2 ^ y.parity_bits

C8_Witness ==
    /\ pc = "done"
    /\ input_string = <<"1", "0", "1", "0", "0">>
    /\ Syndrome(input_string).xor_int = 6

(***************************************************************************)
(* C9. The checksum field Fletcher16 computes splits into two size/2-bit   *)
(* halves: the low half has the value sum1 and the high half the value     *)
(* sum2, the running sums mod 255 of the payload.  As claimed, for every   *)
(* even size; as amended, for every even size of at least 16.              *)
(***************************************************************************)
\* the two halves of the computed field hold the two sums
HalvesAreSums ==
    LET field == result.printed[1].text[1]
        half == size \div 2
        payload == DropLast(input_string, size)
        sums == SumLoop(payload, 1, Len(payload), <<0, 0>>)
    IN  /\ Len(field) = size
        /\ BitsValue(SubSeq(field, half + 1, size)) = sums[1]
        /\ BitsValue(SubSeq(field, 1, half)) = sums[2]

\* the claim as stated: every even size
C9_HalvesAnySize ==
    (pc = "done" /\ variant = "fletcher" /\ size % 2 = 0) => HalvesAreSums

\* the claim as amended: every even size >= 16
C9_HalvesFromSize16 ==
    (pc = "done" /\ variant = "fletcher" /\ size % 2 = 0 /\ size >= DefaultSize) =>
        HalvesAreSums

C9_Witness ==
    /\ pc = "done"
    /\ variant = "fletcher"
    /\ size > DefaultSize
    /\ orig = Ones(23)
    /\ flips = {}
    /\ HalvesAreSums

(***************************************************************************)
(* C10. Server-side extraction on an error-free string: the bits at the    *)
(* power-of-two positions of the reversed view are removed and the rest is *)
(* grouped into 8-bit chunks.  As claimed, a trailing chunk shorter than   *)
(* 8 bits is read as if zero-padded on the right to 8 bits; as amended, it *)
(* is read as the binary number it is (as if zero-padded on the left).     *)
(***************************************************************************)
\* the positions that hold data, in increasing order
DataPositions(L) ==
    LET P == {2 ^ j : j \in 0..L}
        D == (1..L) \ P
        nth[j \in 1..Cardinality(D)] ==
            CHOOSE d \in D : Cardinality({e \in D : e < d}) = j - 1
    IN  nth

\* the j-th chunk of the data bits of the reversed string s
DataChunk(s, j) ==
    LET pos == DataPositions(Len(s))
        n == Len(pos)
        last == IF ChunkBits * j < n THEN ChunkBits * j ELSE n
    IN  [t \in 1..(last - ChunkBits * (j - 1)) |-> s[pos[ChunkBits * (j - 1) + t]]]

\* how many chunks n data bits make
ChunkCount(n) == (n + ChunkBits - 1) \div ChunkBits

\* the text extracted, each chunk c read as Code(c)
ExtractedAs(Code(_)) ==
    LET s == Reverse(input_string)
        n == Len(DataPositions(Len(s)))
    IN  /\ ~result.raised
        /\ Len(result.ret.ascii) = ChunkCount(n)
        /\ \A j \in 1..ChunkCount(n) : result.ret.ascii[j] = Code(DataChunk(s, j))

\* a short chunk zero-padded on the right to 8 bits
PaddedRightValue(c) == BitsValue(c) * 2 ^ (ChunkBits - Len(c))

\* the claim as stated
C10_ShortChunkPaddedRight ==
    (pc = "done" /\ variant = "server" /\ result.ret.kind = "ascii") =>
        ExtractedAs(PaddedRightValue)

\* the claim as amended
C10_ShortChunkAsWritten ==
    (pc = "done" /\ variant = "server" /\ result.ret.kind = "ascii") =>
        ExtractedAs(BitsValue)

C10_Witness ==
    /\ pc = "done"
    /\ variant = "server"
    /\ result.ret.kind = "ascii"
    /\ Len(input_string) = 13
    /\ Len(result.ret.ascii) = 2
    /\ result.ret.ascii[2] = 1
    /\ result.ret.ascii[1] > 127

(***************************************************************************)
(* C12. Size 16: a payload followed by its correctly computed 16-bit       *)
(* checksum, with any single bit of the combined string flipped (in the    *)
(* payload or in the checksum field), is reported as a checksum mismatch;  *)
(* no single-bit corruption is accepted as valid.                          *)
(***************************************************************************)
C12_SingleFlipDetected ==
    (/\ pc = "done"
     /\ variant = "fletcher"
     /\ size = DefaultSize
     /\ flips # {}) =>
        \A k \in flips :
            input_string = Corrupt(orig \o SenderChecksum(orig, DefaultSize), k) =>
                /\ ~result.raised
                /\ Reports(result) = {"checksums", "fletcher_error"}

C12_Witness ==
    /\ pc = "done"
    /\ variant = "fletcher"
    /\ size = DefaultSize
    /\ orig = Ones(255)
    /\ flips = {255}
    /\ input_string = Corrupt(orig \o SenderChecksum(orig, DefaultSize), 255)
    /\ "fletcher_error" \in Reports(result)

(***************************************************************************)
(* C11. In the server's session loop, when the peer has sent the chunks    *)
(* c1..cn (n >= 0) on a connection and closed the stream, the data handed  *)
(* to the codec after that connection is c1 ++ ... ++ cn: never the last   *)
(* chunk only, and never data left over from an earlier connection.        *)
(***************************************************************************)
C11_DispatchesWholeStream ==
    pc \in {"entered", "valid", "rejected", "done"} =>
        input_string = Concat(chunks)

====
